---- MODULE Spec2Model ----
(***************************************************************************)
(* Model of the Universal Media Resolver.                                  *)
(*                                                                         *)
(* The download-token path: LinkSigner (src/backend/link_signer.py) and    *)
(* the /download handler of src/backend/main.py, run by WORKERS            *)
(* independent server processes, each of which owns its own LinkSigner     *)
(* instance (main.py:19).  Spec is one process serving the tokens it       *)
(* signed and their forgeries; SpecWorkers is all processes, serving every *)
(* kind of token; SpecDescribe is one process that is also asked for the   *)
(* unverified views of a token.                                            *)
(*                                                                         *)
(* The handlers of POST /resolve and GET /info (src/backend/main.py) with  *)
(* rate_limit_check: SpecLinks is one process and one client, the          *)
(* responses of /resolve and the downloads of their formats; SpecLimit is  *)
(* one process and the requests of every client.                           *)
(*                                                                         *)
(* The resolver: MediaResolver (src/Backend/media_resolver.py).            *)
(* SpecResolve is one resolve call after another, each taken step by step  *)
(* from one await to the next; SpecSelect is one call of                   *)
(* _filter_by_quality on a list of format dicts.                           *)
(*                                                                         *)
(* The clock counts milliseconds, the finest resolution the code reads     *)
(* (link_signer.py:95).  JWT time claims are whole seconds.  jwt.encode /  *)
(* jwt.decode are modelled after PyJWT 2.x: a token is the record of its   *)
(* claims together with the key that produced its signature, the           *)
(* signature check compares that key with the verifier's secret, and       *)
(* sha256 is modelled as an injective tagging of its argument.             *)
(***************************************************************************)
EXTENDS Integers, Sequences, FiniteSets, TLC

(* ------------------------------ bounds -------------------------------- *)
\* size of the replay cache in the model (the code's default is 1000)
MaxCache == 2
\* number of tokens the resolve endpoint hands out in one behaviour
MaxIssued == 3
\* number of tokens it hands out in a behaviour of all processes
MaxWorkersIssued == 1
\* number of distinct content-hashes one process inserts in such a behaviour
MaxWorkersSeen == 1
\* number of distinct content-hashes one process inserts in one behaviour
MaxSeen == 3
\* number of one-millisecond clock steps, taken before the long ones
MaxMsTicks == 1
\* number of long clock steps (one token lifetime and a second each)
MaxJumps == 1
\* length of the longest list of formats
MaxFormats == 6
\* length of the longest list of backend formats of every kind
MaxRaw == 2
\* number of <source> and <meta> tags of a fetched page
MaxSources == 2
\* number of formats of the descriptor a /resolve response is made of
MaxLinks == 2
\* number of download tokens the responses of one behaviour hold
MaxLinkTokens == 2
\* requests per window the /resolve endpoint admits in the model (the code: 60)
MaxResolveLimit == 2
\* requests per window the /info endpoint admits in the model (the code: 30)
MaxInfoLimit == 1
\* number of half-window clock steps
MaxHalfWindows == 2

(* ----------------------- constants of the program --------------------- *)
token_expire_minutes == 30
WORKERS == 2
MsPerSec == 1000
SecPerMin == 60
\* the number of closest matches _filter_by_quality returns
TopMatches == 5
\* the window of rate_limit_check, in seconds
WindowSec == 60
\* the limits of rate_limit_check for /resolve and for /info
resolve_limit == MaxResolveLimit
info_limit == MaxInfoLimit
\* the addresses of the clients
IPs == {"10.0.0.1", "10.0.0.2"}
MainClient == "10.0.0.1"
WindowMs == WindowSec * MsPerSec
cache_max_size == MaxCache
secret_key == "default-secret-change-me"

Workers == 1..WORKERS
\* the process that serves every request of Spec
MainWorker == 1
URLs == {"https://cdn/a.mp4", "https://cdn/b.mp4"}

\* Python's None as a result, an absent string claim, an absent time claim
None == "None"
NoUrl == "<absent>"
Absent == -1
\* a signing key other than the server's secret
ForgedKey == "attacker-key"

TTLms == token_expire_minutes * SecPerMin * MsPerSec
LongStep == TTLms + MsPerSec

(* ------------------------------- state -------------------------------- *)
VARIABLES
    now,             \* wall clock, milliseconds
    issued,          \* tokens handed out by sign_url
    verified_cache,  \* per process: LinkSigner.verified_cache
    order,           \* per process: the cache's members, oldest insertion first
    seen,            \* per process: every content-hash ever inserted
    last,            \* the last operation and what it returned
    call,            \* the resolve call in progress, or the last one made
    sel,             \* the last call of _filter_by_quality
    signed_links,    \* the formats of the last /resolve response, and how
                     \* often the client has requested each one's download
    request_timestamps,  \* per client address: main.request_timestamps
    admitted         \* per client address: the times of every admitted request

signer_vars == <<now, issued, verified_cache, order, seen, last>>
resolver_vars == <<call, sel>>
api_vars == <<signed_links, request_timestamps, admitted>>
vars == <<now, issued, verified_cache, order, seen, last, call, sel,
          signed_links, request_timestamps, admitted>>

(* ------------------------------ helpers ------------------------------- *)
Range(s) == {s[i] : i \in 1..Len(s)}

\* every order in which iterating a Python set may yield its elements
Listings(S) ==
    {f \in [1..Cardinality(S) -> S] : \A i, j \in 1..Cardinality(S) : f[i] = f[j] => i = j}

\* Python's lst[-n:]
LastN(lst, n) ==
    IF n >= Len(lst) THEN lst ELSE SubSeq(lst, Len(lst) - n + 1, Len(lst))

\* int(timestamp): whole seconds of a millisecond clock
Seconds(ms) == ms \div MsPerSec

(* ----------------------------- LinkSigner ----------------------------- *)
\* sha256(f"{url}:{int(time.time()*1000)}")[:16]
generate_token_id(url, t) == <<url, t>>

\* sha256(token.encode()).hexdigest()
token_hash(token) == <<"sha256", token>>

sign_url(url, t) ==
    [ wf  |-> TRUE,
      key |-> secret_key,
      url |-> url,
      exp |-> Seconds(t) + token_expire_minutes * SecPerMin,
      iat |-> Seconds(t),
      nbf |-> Seconds(t),
      jti |-> generate_token_id(url, t) ]

\* the claims PyJWT 2.x is told to require: the options 'require_exp',
\* 'require_iat' and 'require_nbf' that verify_token passes are not options
\* of PyJWT 2.x, whose only such option, 'require', keeps its default []
RequiredClaims == {}

HasClaim(token, c) ==
    CASE c = "url" -> token.url # NoUrl
      [] c = "exp" -> token.exp # Absent
      [] c = "iat" -> token.iat # Absent
      [] c = "nbf" -> token.nbf # Absent

\* jwt.decode that does not look at the exp claim
jwt_decode_no_exp(token, key, verify_signature, t) ==
    IF ~token.wf THEN "DecodeError"
    ELSE IF ~verify_signature THEN "ok"
    ELSE IF token.key # key THEN "InvalidSignatureError"
    ELSE IF token.iat # Absent /\ token.iat * MsPerSec > t THEN "ImmatureSignatureError"
    ELSE IF token.nbf # Absent /\ token.nbf * MsPerSec > t THEN "ImmatureSignatureError"
    ELSE "ok"

\* jwt.decode(token, key, algorithms=[HS256], options): "ok" or the error raised.
\* Claim checks compare whole-second claims with the clock as a real number.
jwt_decode(token, key, verify_signature, t) ==
    IF ~token.wf THEN "DecodeError"
    ELSE IF ~verify_signature THEN "ok"
    ELSE IF token.key # key THEN "InvalidSignatureError"
    ELSE IF \E c \in RequiredClaims : ~HasClaim(token, c) THEN "MissingRequiredClaimError"
    ELSE IF token.iat # Absent /\ token.iat * MsPerSec > t THEN "ImmatureSignatureError"
    ELSE IF token.nbf # Absent /\ token.nbf * MsPerSec > t THEN "ImmatureSignatureError"
    ELSE IF token.exp # Absent /\ token.exp * MsPerSec <= t THEN "ExpiredSignatureError"
    ELSE "ok"

\* payload.get('url')
payload_url(token) == IF token.url = NoUrl THEN None ELSE token.url

\* _add_to_cache without the size limit
add_to_cache_untrimmed(cache, h) == {cache \cup {h}}

\* the caches _add_to_cache may leave: the set after add(), cut to the last
\* cache_max_size elements of list(set) when it has grown past the cap
add_to_cache(cache, h) ==
    LET added == cache \cup {h}
    IN  IF Cardinality(added) > cache_max_size
        THEN {Range(LastN(cache_list, cache_max_size)) : cache_list \in Listings(added)}
        ELSE {added}

\* verify_token without the "already used" check
verify_token_no_replay_check(cache, token, t) ==
    IF jwt_decode(token, secret_key, TRUE, t) # "ok"
    THEN {[result |-> None, cache |-> cache]}
    ELSE {[result |-> payload_url(token), cache |-> c] :
              c \in add_to_cache(cache, token_hash(token))}

\* verify_token: the pairs (returned value, cache afterwards) a call may have
verify_token(cache, token, t) ==
    IF jwt_decode(token, secret_key, TRUE, t) # "ok"
    THEN {[result |-> None, cache |-> cache]}
    ELSE IF token_hash(token) \in cache
    THEN {[result |-> None, cache |-> cache]}
    ELSE {[result |-> payload_url(token), cache |-> c] :
              c \in add_to_cache(cache, token_hash(token))}

\* decode_token: the claims without any verification, or nothing
decode_token(token) ==
    [ok |-> jwt_decode(token, secret_key, FALSE, 0) = "ok", payload |-> token]

\* get_token_info
get_token_info(token, t) ==
    LET decoded == decode_token(token)
        exp_timestamp == IF decoded.payload.exp = Absent THEN 0 ELSE decoded.payload.exp
        is_expired == exp_timestamp * MsPerSec < t
    IN  IF ~decoded.ok
        THEN [valid |-> FALSE, expired |-> FALSE, url |-> None]
        ELSE [valid |-> ~is_expired, expired |-> is_expired,
              url |-> IF decoded.payload.url = NoUrl THEN "" ELSE decoded.payload.url]

(* ------------------------- GET /download/{token} ---------------------- *)
\* the body of the try block of download_media, given what verify returned
download_try(url) ==
    IF url = None
    THEN [raised |-> TRUE, status |-> 404, detail |-> "Invalid or expired token",
          kind |-> "error", location |-> None]
    ELSE [raised |-> FALSE, status |-> 302, detail |-> "",
          kind |-> "redirect", location |-> url]

\* str(exc) of an HTTPException
http_exception_str(r) ==
    IF r.status = 404 THEN "404: Invalid or expired token" ELSE "error"

\* the "except Exception" clause around the body: it also catches the
\* HTTPException the body raises itself
download_except(r) ==
    IF r.raised
    THEN [raised |-> TRUE, status |-> 400, detail |-> http_exception_str(r),
          kind |-> "error", location |-> None]
    ELSE r

\* http_exception_handler: the JSON answer for a raised HTTPException
http_exception_handler(r) ==
    IF r.raised
    THEN [status |-> r.status, kind |-> "json", detail |-> r.detail,
          location |-> None, content_type |-> "application/json"]
    ELSE [status |-> r.status, kind |-> r.kind, detail |-> r.detail,
          location |-> r.location, content_type |-> None]

download_media(url) == http_exception_handler(download_except(download_try(url)))

(* --------------------------- MediaResolver ---------------------------- *)
\* Python truthiness of a string field: a missing key, None and '' are false
Truthy(s) == s \notin {NoUrl, ""}

\* a format record of the extraction backend; null marks a None in the place
\* of the record, Absent a numeric key that is missing
RawFormat(id, url, height, tbr, note, vcodec, acodec) ==
    [null |-> FALSE, format_id |-> id, url |-> url, height |-> height,
     tbr |-> tbr, format_note |-> note, vcodec |-> vcodec, acodec |-> acodec]

NullFormat ==
    [null |-> TRUE, format_id |-> "", url |-> NoUrl, height |-> Absent,
     tbr |-> Absent, format_note |-> "", vcodec |-> "", acodec |-> ""]

\* two backend formats that carry an asset URL and a height
PlayableFormats ==
    { RawFormat("22", "https://cdn/a.mp4", 720, Absent, "", "avc1", "mp4a"),
      RawFormat("18", "https://cdn/b.mp4", 360, Absent, "", "avc1", "mp4a") }

\* backend formats of every kind: also one without a url key, one with an
\* empty url, an audio-only one with a bitrate, and a None
RawFormats ==
    PlayableFormats \cup
    { RawFormat("sb0", NoUrl, 90, Absent, "storyboard", "", ""),
      RawFormat("drm", "", 1080, Absent, "", "avc1", ""),
      RawFormat("140", "https://cdn/c.m4a", Absent, 128, "", "", "mp4a"),
      NullFormat }

\* the lists of backend formats: short ones of every kind, long ones of
\* formats that carry an asset URL
SeqsUpTo(S, n) == UNION {[1..k -> S] : k \in 0..n}
RawLists == SeqsUpTo(RawFormats, MaxRaw) \cup SeqsUpTo(PlayableFormats, MaxFormats)

\* the info dict of the backend.  formats_key, entries_key and
\* description_key say whether the key is missing ("absent"), holds None
\* ("null") or holds a value; entries is empty ("empty"), starts with None
\* ("null_first") or starts with an entry ("first") whose own formats key
\* is entry_formats_key.  data is the truth value of the whole result.
Info(fk, fl, ek, efk, efl, url, dk) ==
    [data |-> TRUE, formats_key |-> fk, formats |-> fl, entries_key |-> ek,
     entry_formats_key |-> efk, entry_formats |-> efl, url |-> url,
     description_key |-> dk]

\* a backend result of None (or an empty dict)
NoInfo == [Info("absent", <<>>, "absent", "absent", <<>>, NoUrl, "absent")
              EXCEPT !.data = FALSE]

\* the backend results: a formats list with a description, the same with a
\* null or missing description, a null formats list, playlists, and results
\* with no formats at all, with and without a url of their own
Infos ==
    {Info("list", l, "absent", "absent", <<>>, NoUrl, "text") : l \in RawLists}
    \cup {Info("list", l, "absent", "absent", <<>>, u, dk) :
            l \in SeqsUpTo(RawFormats, 1), u \in {NoUrl, "https://cdn/a.mp4"},
            dk \in {"null", "absent"}}
    \cup {Info("null", <<>>, "absent", "absent", <<>>, NoUrl, "text")}
    \cup {Info("absent", <<>>, ek, "absent", <<>>, u, "text") :
            ek \in {"absent", "null", "empty", "null_first"},
            u \in {NoUrl, "", "https://cdn/a.mp4"}}
    \cup {Info("absent", <<>>, "first", efk, l, NoUrl, "text") :
            efk \in {"absent", "null"}, l \in {<<>>}}
    \cup {Info("absent", <<>>, "first", "list", l, NoUrl, "text") :
            l \in SeqsUpTo(RawFormats, 1)}

\* the outcome of a piece of code that may raise
Raise(error) == [raised |-> TRUE, error |-> error, formats |-> <<>>, unfiltered |-> <<>>]
Return(formats, unfiltered) ==
    [raised |-> FALSE, error |-> "", formats |-> formats, unfiltered |-> unfiltered]

\* _extract_quality: the label of a backend format
extract_quality(fmt) ==
    IF fmt.height # Absent /\ fmt.height # 0 THEN ToString(fmt.height) \o "p"
    ELSE IF fmt.tbr # Absent /\ fmt.tbr # 0 THEN ToString(fmt.tbr) \o "k"
    ELSE IF fmt.format_note # "" THEN fmt.format_note
    ELSE "unknown"

\* the format_info dict of _process_formats; it has no height key.  Its
\* ext, filesize, resolution, fps and format_note keys are copies that
\* nothing reads and are left out.
format_info(fmt) ==
    [format_id |-> fmt.format_id, url |-> fmt.url,
     quality |-> extract_quality(fmt), height |-> Absent,
     vcodec |-> fmt.vcodec, acodec |-> fmt.acodec]

\* the format _process_formats makes of the result's own url
direct_format(info) ==
    [format_id |-> "direct", url |-> info.url, quality |-> "best",
     height |-> Absent, vcodec |-> "", acodec |-> ""]

\* the choice of format_list in _process_formats
format_list(info) ==
    IF info.formats_key # "absent"
    THEN IF info.formats_key = "null" THEN Raise("TypeError")
         ELSE Return(info.formats, <<>>)
    ELSE IF info.entries_key = "absent" THEN Return(<<>>, <<>>)
    ELSE IF info.entries_key \in {"null", "empty"} THEN Return(<<>>, <<>>)
    ELSE IF info.entries_key = "null_first" THEN Raise("AttributeError")
    ELSE IF info.entry_formats_key = "absent" THEN Return(<<>>, <<>>)
    ELSE IF info.entry_formats_key = "null" THEN Raise("TypeError")
    ELSE Return(info.entry_formats, <<>>)

\* a _process_formats that keeps the records without a url
process_formats_keep_all(info) ==
    LET fl == format_list(info)
    IN  IF fl.raised THEN fl
        ELSE IF \E i \in 1..Len(fl.formats) : fl.formats[i].null
        THEN Raise("AttributeError")
        ELSE Return([i \in 1..Len(fl.formats) |-> format_info(fl.formats[i])], <<>>)

\* _process_formats
process_formats(info) ==
    LET fl == format_list(info)
    IN  IF fl.raised THEN fl
        ELSE IF \E i \in 1..Len(fl.formats) : fl.formats[i].null
        THEN Raise("AttributeError")
        ELSE LET kept == SelectSeq(fl.formats, LAMBDA fmt : Truthy(fmt.url))
                 formats == [i \in 1..Len(kept) |-> format_info(kept[i])]
             IN  IF formats = <<>> /\ Truthy(info.url)
                 THEN Return(<<direct_format(info)>>, <<>>)
                 ELSE Return(formats, <<>>)

\* a quality preference is a string, written as the sequence of its characters
NoQuality == <<>>
Digit == [c \in {"0", "1", "2", "3", "4", "5", "6", "7", "8", "9"} |->
            CASE c = "0" -> 0 [] c = "1" -> 1 [] c = "2" -> 2 [] c = "3" -> 3
              [] c = "4" -> 4 [] c = "5" -> 5 [] c = "6" -> 6 [] c = "7" -> 7
              [] c = "8" -> 8 [] c = "9" -> 9]

\* str.lower, on the letters the preferences are written with
lower(s) ==
    [i \in 1..Len(s) |->
        CASE s[i] = "P" -> "p" [] s[i] = "B" -> "b" [] s[i] = "E" -> "e"
          [] s[i] = "S" -> "s" [] s[i] = "T" -> "t" [] OTHER -> s[i]]

\* str.replace(c, '')
replace(s, c) == SelectSeq(s, LAMBDA x : x # c)

\* int(s) succeeds: a non-empty row of digits (signs, blanks and underscores,
\* which int also takes, are not among the inputs)
is_int(s) == s # <<>> /\ \A i \in 1..Len(s) : s[i] \in DOMAIN Digit

RECURSIVE int(_)
int(s) == IF s = <<>> THEN 0 ELSE 10 * int(SubSeq(s, 1, Len(s) - 1)) + Digit[s[Len(s)]]

abs(n) == IF n < 0 THEN -n ELSE n

\* the sort key of _filter_by_quality
distance(fmt, target_height) ==
    abs((IF fmt.height = Absent THEN 0 ELSE fmt.height) - target_height)

\* list.sort(key=...): a stable sort, by insertion
RECURSIVE insert(_, _, _)
insert(sorted, x, target_height) ==
    IF sorted = <<>> THEN <<x>>
    ELSE IF distance(Head(sorted), target_height) > distance(x, target_height)
    THEN <<x>> \o sorted
    ELSE <<Head(sorted)>> \o insert(Tail(sorted), x, target_height)

RECURSIVE sort(_, _)
sort(s, target_height) ==
    IF s = <<>> THEN <<>>
    ELSE insert(sort(SubSeq(s, 1, Len(s) - 1), target_height), s[Len(s)], target_height)

\* the predicates of quality_map
quality_map(quality, f) ==
    CASE quality = <<"b", "e", "s", "t">> -> f.quality = "best" \/ f.format_id = "best"
      [] quality = <<"w", "o", "r", "s", "t">> -> f.quality = "worst" \/ f.format_id = "worst"
      [] quality = <<"a", "u", "d", "i", "o">> -> f.acodec # "" /\ f.vcodec = ""
      [] quality = <<"v", "i", "d", "e", "o">> -> f.vcodec # "" /\ f.acodec = ""

quality_map_keys ==
    { <<"b", "e", "s", "t">>, <<"w", "o", "r", "s", "t">>,
      <<"a", "u", "d", "i", "o">>, <<"v", "i", "d", "e", "o">> }

\* a _filter_by_quality that answers an unknown preference with no format
filter_by_quality_strict(formats, quality) ==
    IF quality = NoQuality THEN formats
    ELSE LET q == replace(lower(quality), "p")
         IN  IF is_int(q)
             THEN LET filtered == SelectSeq(formats, LAMBDA fmt :
                                      fmt.height # Absent /\ fmt.height # 0)
                  IN  IF filtered # <<>>
                      THEN SubSeq(sort(filtered, int(q)), 1,
                                  IF Len(filtered) < TopMatches THEN Len(filtered)
                                  ELSE TopMatches)
                      ELSE formats
             ELSE IF q \in quality_map_keys
             THEN SelectSeq(formats, LAMBDA f : quality_map(q, f))
             ELSE <<>>

\* _filter_by_quality
filter_by_quality(formats, quality) ==
    IF quality = NoQuality THEN formats
    ELSE LET q == replace(lower(quality), "p")
         IN  IF is_int(q)
             THEN LET filtered == SelectSeq(formats, LAMBDA fmt :
                                      fmt.height # Absent /\ fmt.height # 0)
                  IN  IF filtered # <<>>
                      THEN SubSeq(sort(filtered, int(q)), 1,
                                  IF Len(filtered) < TopMatches THEN Len(filtered)
                                  ELSE TopMatches)
                      ELSE formats
             ELSE IF q \in quality_map_keys
             THEN SelectSeq(formats, LAMBDA f : quality_map(q, f))
             ELSE formats

\* the try block of resolve from the return of the backend on, for a result
\* that is not empty: _process_formats, _filter_by_quality, and the dict
\* whose description slices info.get('description', '')
resolve_try(info, quality_preference) ==
    LET p == process_formats(info)
    IN  IF p.raised THEN p
        ELSE IF info.description_key = "null" THEN Raise("TypeError")
        ELSE Return(IF quality_preference # NoQuality
                    THEN filter_by_quality(p.formats, quality_preference)
                    ELSE p.formats,
                    p.formats)

\* the page the generic extractor fetches: its <source> and <meta> tags in
\* document order; src is the src or content attribute
PageUrl == "https://site/page"
Source(tag, src, prop) == [tag |-> tag, src |-> src, prop |-> prop]
Sources ==
    { Source("video", "https://cdn/a.mp4", ""), Source("video", "media/b.mp4", ""),
      Source("video", NoUrl, ""), Source("audio", "https://cdn/c.m4a", ""),
      Source("audio", "", ""), Source("meta", "https://cdn/a.mp4", "og:video"),
      Source("meta", "", "og:audio"), Source("meta", "A title", "og:title") }
Pages == SeqsUpTo(Sources, MaxSources)

\* _make_absolute_url: urljoin of the page's URL and a relative one
make_absolute_url(base_url, relative_url) ==
    CASE relative_url = "media/b.mp4" -> "https://site/media/b.mp4"
      [] OTHER -> base_url

\* str.startswith('http')
startswith_http(s) == s \in {"https://cdn/a.mp4", "https://cdn/c.m4a"}

\* 'meta_' + prop.replace(':', '_')
meta_format_id(prop) ==
    CASE prop = "og:video" -> "meta_og_video"
      [] prop = "og:video:url" -> "meta_og_video_url"
      [] prop = "og:audio" -> "meta_og_audio"
      [] prop = "og:audio:url" -> "meta_og_audio_url"

og_props == {"og:video", "og:video:url", "og:audio", "og:audio:url"}

\* the format dict _generic_resolve appends for one tag
generic_format(url, s) ==
    [format_id |-> IF s.tag = "meta" THEN meta_format_id(s.prop) ELSE s.tag,
     url |-> IF startswith_http(s.src) THEN s.src ELSE make_absolute_url(url, s.src),
     quality |-> "unknown", height |-> Absent, vcodec |-> "", acodec |-> ""]

\* the formats of _generic_resolve for a page that was fetched: the video
\* sources, then the audio sources, then the meta tags
generic_resolve(url, page) ==
    LET pick(tag) == SelectSeq(page, LAMBDA s :
                        /\ s.tag = tag /\ Truthy(s.src)
                        /\ tag = "meta" => s.prop \in og_props)
        found == pick("video") \o pick("audio") \o pick("meta")
    IN  [i \in 1..Len(found) |-> generic_format(url, found[i])]

\* the exceptions of resolve
ExtractorError == "ERROR: Unsupported URL"
FetchError == "Failed to fetch URL: 404"

\* no resolve call is in progress
IdleCall ==
    [pc |-> "idle", quality |-> NoQuality, info |-> NoInfo, backend |-> "none",
     generic_calls |-> 0, generic_ok |-> FALSE, e |-> "", outcome |-> "none",
     error |-> "", via |-> "", unfiltered |-> <<>>, formats |-> <<>>]

\* the quality preferences of the requests
Qualities ==
    { NoQuality, <<"7", "2", "0">>, <<"7", "2", "0", "P">>, <<"5", "4", "0", "p">>,
      <<"b", "e", "s", "t">>, <<"B", "e", "s", "t">>, <<"w", "o", "r", "s", "t">>,
      <<"a", "u", "d", "i", "o">>, <<"v", "i", "d", "e", "o">>, <<"4", "k">>, <<"p">> }

\* format dicts as the selector may be handed them, with and without a height
SelectorFormats ==
    { [format_id |-> "18", url |-> "https://cdn/b.mp4", quality |-> "360p",
       height |-> 360, vcodec |-> "avc1", acodec |-> "mp4a"],
      [format_id |-> "137", url |-> "https://cdn/a.mp4", quality |-> "1080p",
       height |-> 1080, vcodec |-> "avc1", acodec |-> ""],
      [format_id |-> "140", url |-> "https://cdn/c.m4a", quality |-> "128k",
       height |-> Absent, vcodec |-> "", acodec |-> "mp4a"],
      [format_id |-> "best", url |-> "https://cdn/a.mp4", quality |-> "best",
       height |-> 720, vcodec |-> "avc1", acodec |-> "mp4a"] }

\* no selector call has been made
IdleSelect == [pc |-> "idle", formats |-> <<>>, quality |-> NoQuality, out |-> <<>>]

(* ----------------------- POST /resolve, GET /info --------------------- *)
\* a rate_limit_check that refuses only above the limit
rate_limit_check_above(store, client_ip, t, limit_per_minute) ==
    LET cleaned == SelectSeq(store[client_ip], LAMBDA ts : t - ts < WindowMs)
    IN  IF Len(cleaned) > limit_per_minute
        THEN [raised |-> TRUE, status |-> 429, detail |-> "Rate limit exceeded",
              store |-> [store EXCEPT ![client_ip] = cleaned]]
        ELSE [raised |-> FALSE, status |-> 200, detail |-> "",
              store |-> [store EXCEPT ![client_ip] = Append(cleaned, t)]]

\* rate_limit_check for a request of client_ip at time t: the timestamps
\* of the address that are WindowSec old or older are dropped, then the
\* request is refused (HTTPException 429) or its time is appended.  An
\* address without an entry is the same as one with an empty list.
rate_limit_check(store, client_ip, t, limit_per_minute) ==
    LET cleaned == SelectSeq(store[client_ip], LAMBDA ts : t - ts < WindowMs)
    IN  IF Len(cleaned) >= limit_per_minute
        THEN [raised |-> TRUE, status |-> 429, detail |-> "Rate limit exceeded",
              store |-> [store EXCEPT ![client_ip] = cleaned]]
        ELSE [raised |-> FALSE, status |-> 200, detail |-> "",
              store |-> [store EXCEPT ![client_ip] = Append(cleaned, t)]]

\* the answer of a handler that got through, or raised an HTTPException
HandlerAnswer(status, detail) ==
    [status |-> status, kind |-> "json", location |-> None, detail |-> detail,
     content_type |-> "application/json"]

\* the asset URLs of the formats of a descriptor: an empty one stands for a
\* format without a url
FormatUrls == URLs \cup {""}
Descriptors == SeqsUpTo(FormatUrls, MaxLinks)

\* the instants at which the loop of resolve_url signs the formats of a
\* descriptor, one after another: the clock may move on between two of them
SignTimes(n, t) ==
    {at \in [1..n -> {t, t + 1}] :
        /\ \A i \in 1..n : at[i] <= (IF t < MaxMsTicks THEN t + 1 ELSE t)
        /\ \A i, j \in 1..n : i < j => at[i] <= at[j]}

\* the loop of resolve_url: a format with a url gets the token sign_url
\* makes of it at that instant, and is put on signed_links
sign_formats(urls, at) ==
    LET idx == SelectSeq([i \in 1..Len(urls) |-> i], LAMBDA i : Truthy(urls[i]))
    IN  [k \in 1..Len(idx) |->
            [url |-> urls[idx[k]], download_token |-> sign_url(urls[idx[k]], at[idx[k]]),
             fetched |-> 0]]

(* ------------------------------ inputs -------------------------------- *)
\* a string that is not a JWT
Garbage ==
    [wf |-> FALSE, key |-> ForgedKey, url |-> NoUrl, exp |-> Absent,
     iat |-> Absent, nbf |-> Absent, jti |-> <<NoUrl, 0>>]

\* the claims of a token re-signed with a key that is not the server's
Tamper(token) == [token EXCEPT !.key = ForgedKey]

\* a token of the server's key that lacks one claim
Strip(token, c) ==
    CASE c = "url" -> [token EXCEPT !.url = NoUrl]
      [] c = "exp" -> [token EXCEPT !.exp = Absent]
      [] c = "iat" -> [token EXCEPT !.iat = Absent]
      [] c = "nbf" -> [token EXCEPT !.nbf = Absent]

\* a token of the server's key that becomes valid one lifetime later
Postdate(token) ==
    [token EXCEPT !.nbf = token.nbf + token_expire_minutes * SecPerMin,
                  !.exp = token.exp + token_expire_minutes * SecPerMin]

Claims == {"url", "exp", "iat", "nbf"}

\* the tokens a client presents to one process: those the server signed,
\* and their claims under a forged signature
Inputs == issued \cup {Tamper(t) : t \in issued}

\* every kind of token: also a malformed one, post-dated ones, and tokens of
\* the server's key that lack a claim
AllInputs ==
    Inputs \cup {Garbage}
           \cup {Postdate(t) : t \in issued}
           \cup {Strip(t, c) : t \in issued, c \in Claims}

(* ------------------------------ actions ------------------------------- *)
Op(op, w, token, result, resp) ==
    [seq |-> 1 - last.seq, op |-> op, w |-> w, token |-> token,
     result |-> result, status |-> resp.status, kind |-> resp.kind,
     location |-> resp.location, detail |-> resp.detail,
     content_type |-> resp.content_type]

NoResponse ==
    [status |-> 0, kind |-> "none", location |-> None, detail |-> "",
     content_type |-> None]

Init ==
    /\ now = 0
    /\ issued = {}
    /\ verified_cache = [w \in Workers |-> {}]
    /\ order = [w \in Workers |-> <<>>]
    /\ seen = [w \in Workers |-> {}]
    /\ last = [seq |-> 0, op |-> "init", w |-> 0, token |-> Garbage,
               result |-> None, status |-> 0, kind |-> "none",
               location |-> None, detail |-> "", content_type |-> None]
    /\ call = IdleCall
    /\ sel = IdleSelect
    /\ signed_links = <<>>
    /\ request_timestamps = [ip \in IPs |-> <<>>]
    /\ admitted = [ip \in IPs |-> <<>>]

\* time passes by one millisecond
TickMs ==
    /\ now < MaxMsTicks
    /\ now' = now + 1
    /\ UNCHANGED <<issued, verified_cache, order, seen, last>>
    /\ UNCHANGED resolver_vars
    /\ UNCHANGED api_vars

\* time passes by one token lifetime and a second
TickLong ==
    /\ now \div LongStep < MaxJumps
    /\ now' = now + LongStep
    /\ UNCHANGED <<issued, verified_cache, order, seen, last>>
    /\ UNCHANGED resolver_vars
    /\ UNCHANGED api_vars

\* resolve_url signs the asset URL of a format (any process: the secret is shared)
SignUpTo(u, max) ==
    /\ Cardinality(issued \cup {sign_url(u, now)}) <= max
    /\ issued' = issued \cup {sign_url(u, now)}
    /\ last' = Op("sign", 0, sign_url(u, now), None, NoResponse)
    /\ UNCHANGED <<now, verified_cache, order, seen>>
    /\ UNCHANGED resolver_vars
    /\ UNCHANGED api_vars

SignUrl(u) == SignUpTo(u, MaxIssued)

\* what GET /download/{token} does in process w: verify_token, then the answer
VerifyAndAnswer(w, token) ==
    \E o \in verify_token(verified_cache[w], token, now) :
        /\ verified_cache' = [verified_cache EXCEPT ![w] = o.cache]
        /\ order' = [order EXCEPT ![w] =
               IF o.result = None /\ o.cache = verified_cache[w]
               THEN @
               ELSE SelectSeq(Append(@, token_hash(token)), LAMBDA h : h \in o.cache)]
        /\ seen' = [seen EXCEPT ![w] =
               IF o.result = None /\ o.cache = verified_cache[w]
               THEN @ ELSE @ \cup {token_hash(token)}]
        /\ Cardinality(seen'[w]) <= MaxSeen
        /\ last' = Op("download", w, token, o.result, download_media(o.result))
        /\ UNCHANGED <<now, issued>>

\* a /download handler that takes the URL from decode_token
DownloadMediaUnverified(w, token) ==
    LET url == IF decode_token(token).ok THEN payload_url(token) ELSE None
    IN  /\ last' = Op("download", w, token, url, download_media(url))
        /\ UNCHANGED <<now, issued, verified_cache, order, seen>>
        /\ UNCHANGED resolver_vars
        /\ UNCHANGED api_vars

\* GET /download/{token} served by process w
DownloadMedia(w, token) ==
    /\ VerifyAndAnswer(w, token)
    /\ UNCHANGED resolver_vars
    /\ UNCHANGED api_vars

\* a call of LinkSigner.decode_token
DecodeToken(token) ==
    /\ last' = Op("decode", 0, token,
                  IF decode_token(token).ok THEN payload_url(token) ELSE None,
                  NoResponse)
    /\ UNCHANGED <<now, issued, verified_cache, order, seen>>
    /\ UNCHANGED resolver_vars
    /\ UNCHANGED api_vars

\* a get_token_info that asks verify_token of the first process
GetTokenInfoVerifying(token) ==
    \E o \in verify_token(verified_cache[MainWorker], token, now) :
        /\ verified_cache' = [verified_cache EXCEPT ![MainWorker] = o.cache]
        /\ last' = Op("info", 0, token, o.result,
                      [NoResponse EXCEPT !.kind =
                          IF o.result # None THEN "valid" ELSE "invalid"])
        /\ UNCHANGED <<now, issued, order, seen>>
        /\ UNCHANGED resolver_vars
        /\ UNCHANGED api_vars

\* a call of LinkSigner.get_token_info
GetTokenInfo(token) ==
    /\ last' = Op("info", 0, token, get_token_info(token, now).url,
                  [NoResponse EXCEPT !.kind =
                      IF get_token_info(token, now).valid THEN "valid" ELSE "invalid"])
    /\ UNCHANGED <<now, issued, verified_cache, order, seen>>
    /\ UNCHANGED resolver_vars
    /\ UNCHANGED api_vars

Next ==
    \/ TickMs
    \/ TickLong
    \/ \E u \in URLs : SignUrl(u)
    \/ \E token \in Inputs : DownloadMedia(MainWorker, token)

\* one server process, serving the tokens it signed and their forgeries
Spec == Init /\ [][Next]_vars

SignOne(u) == SignUpTo(u, MaxWorkersIssued)

DownloadAny(w, token) ==
    /\ DownloadMedia(w, token)
    /\ Cardinality(seen'[w]) <= MaxWorkersSeen

NextWorkers ==
    \/ TickMs
    \/ TickLong
    \/ \E u \in URLs : SignOne(u)
    \/ \E w \in Workers, token \in AllInputs : DownloadAny(w, token)
    \/ \E token \in AllInputs : DecodeToken(token)
    \/ \E token \in AllInputs : GetTokenInfo(token)

\* all WORKERS server processes, presented with every kind of token and
\* asked for the unverified views of a token
SpecWorkers == Init /\ [][NextWorkers]_vars

\* one process, serving the tokens it signed and their forgeries, and asked
\* for the unverified views of every kind of token
NextDescribe ==
    \/ TickLong
    \/ \E u \in URLs : SignOne(u)
    \/ \E token \in Inputs : DownloadAny(MainWorker, token)
    \/ \E token \in AllInputs : DecodeToken(token)
    \/ \E token \in AllInputs : GetTokenInfo(token)

SpecDescribe == Init /\ [][NextDescribe]_vars

(* ------------------------ resolve, step by step ----------------------- *)
\* resolve is entered with a quality preference
StartResolve(quality_preference) ==
    /\ call.pc \in {"idle", "done"}
    /\ call' = [IdleCall EXCEPT !.pc = "backend", !.quality = quality_preference]
    /\ UNCHANGED <<signer_vars, sel>>
    /\ UNCHANGED api_vars

\* extract_info raises: control is in the except clause, before its call of
\* _generic_resolve
BackendRaises ==
    /\ call.pc = "backend"
    /\ call' = [call EXCEPT !.pc = "generic_in_except", !.backend = "raised",
                            !.e = ExtractorError]
    /\ UNCHANGED <<signer_vars, sel>>
    /\ UNCHANGED api_vars

\* extract_info returns nothing: control is at the call of _generic_resolve
\* inside the try block
BackendReturnsNothing ==
    /\ call.pc = "backend"
    /\ call' = [call EXCEPT !.pc = "generic_in_try", !.backend = "no_data"]
    /\ UNCHANGED <<signer_vars, sel>>
    /\ UNCHANGED api_vars

\* extract_info returns a result: the rest of the try block runs, and what
\* it raises is caught by the except clause
BackendReturns(info) ==
    /\ call.pc = "backend"
    /\ info.data
    /\ LET r == resolve_try(info, call.quality)
       IN  call' = IF r.raised
                   THEN [call EXCEPT !.pc = "generic_in_except", !.backend = "data",
                                     !.info = info, !.e = r.error]
                   ELSE [call EXCEPT !.pc = "done", !.backend = "data",
                                     !.info = info, !.outcome = "ok",
                                     !.via = "backend", !.formats = r.formats,
                                     !.unfiltered = r.unfiltered]
    /\ UNCHANGED <<signer_vars, sel>>
    /\ UNCHANGED api_vars

\* _generic_resolve returns the formats of the page it fetched, and resolve
\* returns them as they are
GenericReturns(page) ==
    /\ call.pc \in {"generic_in_try", "generic_in_except"}
    /\ call' = [call EXCEPT !.pc = "done", !.generic_calls = @ + 1,
                            !.generic_ok = TRUE, !.outcome = "ok",
                            !.via = "generic",
                            !.formats = generic_resolve(PageUrl, page),
                            !.unfiltered = generic_resolve(PageUrl, page)]
    /\ UNCHANGED <<signer_vars, sel>>
    /\ UNCHANGED api_vars

\* _generic_resolve raises: inside the try block the except clause catches
\* it and calls _generic_resolve itself; inside the except clause resolve
\* raises with the text of the exception the except clause caught
GenericRaises ==
    /\ call.pc \in {"generic_in_try", "generic_in_except"}
    /\ call' = IF call.pc = "generic_in_try"
               THEN [call EXCEPT !.pc = "generic_in_except",
                                 !.generic_calls = @ + 1, !.e = FetchError]
               ELSE [call EXCEPT !.pc = "done", !.generic_calls = @ + 1,
                                 !.outcome = "error",
                                 !.error = "Failed to resolve URL: " \o call.e]
    /\ UNCHANGED <<signer_vars, sel>>
    /\ UNCHANGED api_vars

NextResolve ==
    \/ \E q \in Qualities : StartResolve(q)
    \/ BackendRaises
    \/ BackendReturnsNothing
    \/ \E info \in Infos : BackendReturns(info)
    \/ \E page \in Pages : GenericReturns(page)
    \/ GenericRaises

SpecResolve == Init /\ [][NextResolve]_vars

(* ------------------------- the quality selector ----------------------- *)
\* a call of _filter_by_quality; one behaviour holds one call
FilterByQuality(formats, quality) ==
    /\ sel.pc = "idle"
    /\ sel' = [pc |-> "returned", formats |-> formats, quality |-> quality,
               out |-> filter_by_quality(formats, quality)]
    /\ UNCHANGED <<signer_vars, call>>
    /\ UNCHANGED api_vars

NextSelect ==
    /\ sel.pc = "idle"
    /\ \E formats \in SeqsUpTo(SelectorFormats, MaxFormats), quality \in Qualities :
           FilterByQuality(formats, quality)

SpecSelect == Init /\ [][NextSelect]_vars

(* ------------------------- the API handlers --------------------------- *)
\* POST /resolve from client_ip: rate_limit_check; resolver.resolve, which
\* returns a descriptor or raises; the signing loop over the descriptor
ResolveUrl(client_ip, resolved, urls, at) ==
    LET rl == rate_limit_check(request_timestamps, client_ip, now, resolve_limit)
        links == sign_formats(urls, at)
        tokens == {links[i].download_token : i \in 1..Len(links)}
    IN  /\ request_timestamps' = rl.store
        /\ admitted' = IF rl.raised THEN admitted
                       ELSE [admitted EXCEPT ![client_ip] = Append(@, now)]
        /\ IF rl.raised
           THEN /\ last' = Op("resolve", 0, Garbage, client_ip,
                              HandlerAnswer(rl.status, rl.detail))
                /\ UNCHANGED <<now, issued, signed_links>>
           ELSE IF ~resolved
           THEN /\ last' = Op("resolve", 0, Garbage, client_ip,
                              HandlerAnswer(400, "Failed to resolve URL"))
                /\ UNCHANGED <<now, issued, signed_links>>
           ELSE /\ Cardinality(issued \cup tokens) <= MaxLinkTokens
                /\ issued' = issued \cup tokens
                /\ signed_links' = links
                /\ now' = IF urls = <<>> THEN now ELSE at[Len(urls)]
                /\ last' = Op("resolve", 0, Garbage, client_ip, HandlerAnswer(200, ""))
        /\ UNCHANGED <<verified_cache, order, seen>>
        /\ UNCHANGED resolver_vars

\* GET /info from client_ip: rate_limit_check, then resolver.get_info
GetInfo(client_ip, resolved) ==
    LET rl == rate_limit_check(request_timestamps, client_ip, now, info_limit)
    IN  /\ request_timestamps' = rl.store
        /\ admitted' = IF rl.raised THEN admitted
                       ELSE [admitted EXCEPT ![client_ip] = Append(@, now)]
        /\ last' = Op("get_info", 0, Garbage, client_ip,
                      IF rl.raised THEN HandlerAnswer(rl.status, rl.detail)
                      ELSE IF resolved THEN HandlerAnswer(200, "")
                      ELSE HandlerAnswer(400, "Failed to get info"))
        /\ UNCHANGED <<now, issued, verified_cache, order, seen, signed_links>>
        /\ UNCHANGED resolver_vars

\* the client follows the download_url of format i of the response it holds
DownloadFormat(i) ==
    /\ i \in 1..Len(signed_links)
    /\ VerifyAndAnswer(MainWorker, signed_links[i].download_token)
    /\ signed_links' = [signed_links EXCEPT ![i].fetched = 1]
    /\ UNCHANGED <<request_timestamps, admitted>>
    /\ UNCHANGED resolver_vars

\* one process, one client: responses of /resolve and the downloads of
\* their formats
NextLinks ==
    \/ TickLong
    \/ \E resolved \in BOOLEAN, urls \in Descriptors :
          \E at \in SignTimes(Len(urls), now) :
              ResolveUrl(MainClient, resolved, urls, at)
    \/ \E i \in 1..MaxLinks : DownloadFormat(i)

SpecLinks == Init /\ [][NextLinks]_vars

\* time passes by half a window of rate_limit_check
TickHalfWindow ==
    /\ now < MaxHalfWindows * (WindowMs \div 2)
    /\ now' = now + WindowMs \div 2
    /\ UNCHANGED <<issued, verified_cache, order, seen, last>>
    /\ UNCHANGED resolver_vars
    /\ UNCHANGED api_vars

\* the requests the rate limit applies to, from every client; the resolver
\* fails, so that no descriptor is signed here
NextLimit ==
    \/ TickHalfWindow
    \/ \E ip \in IPs : ResolveUrl(ip, FALSE, <<>>, <<>>)
    \/ \E ip \in IPs, resolved \in BOOLEAN : GetInfo(ip, resolved)

SpecLimit == Init /\ [][NextLimit]_vars

(* ------------------------------ claims -------------------------------- *)
\* this step is a /download request (every operation flips last.seq)
DidDownload == last'.seq # last.seq /\ last'.op = "download"

\* the clock is past the token's expiresAt
Expired(token, t) == token.exp # Absent /\ token.exp * MsPerSec < t

\* the clock is inside [notBefore, expiresAt]
InWindow(token, t) ==
    /\ token.nbf # Absent /\ token.nbf * MsPerSec <= t
    /\ token.exp # Absent /\ t <= token.exp * MsPerSec

\* C1: verifying a token just produced by sign_url returns its URL, and an
\* immediately following second verification of the same token by the same
\* process, still inside the token's validity window, returns invalid.
\* (Read in the code's favour: the token was not handed out and verified
\* before, and the first verification happens before expiresAt.)
C1_RoundTripOnce ==
    [][ /\ ( /\ DidDownload
             /\ last.op = "sign"
             /\ last'.token = last.token
             /\ token_hash(last.token) \notin seen[last'.w]
             /\ InWindow(last.token, now)
             /\ now < last.token.exp * MsPerSec )
           => last'.result = last.token.url
        /\ ( /\ DidDownload
             /\ last.op = "download"
             /\ last.result # None
             /\ last'.token = last.token
             /\ last'.w = last.w
             /\ InWindow(last.token, now) )
           => last'.result = None ]_vars

\* C2 as stated: one process never accepts the same token twice, whatever
\* happens in between.
C2_AtMostOnce ==
    [][ \A w \in Workers :
          (DidDownload /\ last'.w = w /\ last'.result # None)
          => token_hash(last'.token) \notin seen[w] ]_vars

\* C2 amended: one process never accepts the same token twice as long as it
\* has inserted no more than cache_max_size distinct content-hashes.
C2_AtMostOnceBelowCap ==
    [][ \A w \in Workers :
          ( /\ DidDownload /\ last'.w = w /\ last'.result # None
            /\ Cardinality(seen[w]) <= cache_max_size )
          => token_hash(last'.token) \notin seen[w] ]_vars

\* a replay of an accepted, unexpired token was turned down by its process
C2_Witness ==
    /\ last.op = "download" /\ last.result = None /\ last.w \in Workers
    /\ last.token \in issued
    /\ ~Expired(last.token, now) /\ now < last.token.exp * MsPerSec
    /\ token_hash(last.token) \in verified_cache[last.w]
    /\ Cardinality(seen[last.w]) <= cache_max_size

\* C3: once the clock is past a token's expiresAt, verification returns
\* invalid for it, in every state of the replay cache and at every later time.
C3_ExpiredRejected ==
    [][ (DidDownload /\ Expired(last'.token, now))
        => (last'.result = None /\ last'.location = None) ]_vars

\* an expired token that its process never verified was turned down
C3_Witness ==
    /\ last.op = "download" /\ last.result = None /\ last.w \in Workers
    /\ last.token \in issued
    /\ Expired(last.token, now)
    /\ token_hash(last.token) \notin seen[last.w]

\* what C4 lists: a token that verify_token must turn down in process w
MustReject(token, w) ==
    \/ ~token.wf
    \/ token.key # secret_key
    \/ \E c \in Claims : ~HasClaim(token, c)
    \/ ~InWindow(token, now)
    \/ token_hash(token) \in verified_cache[w]

\* C4: verify_token returns invalid for every token with a wrong signature,
\* a malformed token, a token lacking url, issuedAt, notBefore or expiresAt,
\* a token presented outside [notBefore, expiresAt] and a token whose
\* content-hash is in the replay cache.
C4_FailsClosed ==
    [][ \A w \in Workers :
          (DidDownload /\ last'.w = w /\ MustReject(last'.token, w))
          => last'.result = None ]_vars

\* C5: of all verifications of one token, by whichever process, at most one
\* accepts it; and a verification removes nothing from the cache of another
\* process, nor from its own while that is below its cap.
C5_OneAcceptAcrossWorkers ==
    [][ \A w \in Workers :
          (DidDownload /\ last'.w = w)
          => /\ last'.result # None
                => \A v \in Workers : token_hash(last'.token) \notin seen[v]
             /\ \A v \in Workers \ {w} : verified_cache'[v] = verified_cache[v]
             /\ Cardinality(verified_cache[w]) < cache_max_size
                => verified_cache[w] \subseteq verified_cache'[w] ]_vars

\* C6: a download that discloses a URL was authorized by verify_token: the
\* token carries the server's signature, the URL is the token's own, and the
\* token's content-hash went through the replay cache of the serving process.
C6_OnlyVerifiedAuthorizes ==
    (last.op = "download" /\ last.location # None)
    => /\ last.token.wf
       /\ last.token.key = secret_key
       /\ last.location = last.token.url
       /\ last.result = last.token.url
       /\ token_hash(last.token) \in seen[last.w]

\* a download was answered with the URL of a verified token, while a token
\* with the same claims and a forged signature can be presented
C6_Witness ==
    /\ last.op = "download" /\ last.location = last.token.url
    /\ last.token \in issued
    /\ Tamper(last.token) \in Inputs

\* C7: /download answers an invalid, expired or replayed token with status
\* 403 or 404 and the generic message.
C7_InvalidIs403Or404 ==
    (last.op = "download" /\ last.result = None)
    => /\ last.status \in {403, 404}
       /\ last.detail = "Invalid or expired token"

\* C8: for a valid token /download relays the asset as a streamed attachment
\* of type application/octet-stream and never redirects the client to it.
C8_StreamsNeverRedirects ==
    (last.op = "download" /\ last.result # None)
    => /\ last.kind = "stream"
       /\ last.content_type = "application/octet-stream"
       /\ last.location = None
       /\ last.status = 200

\* C9: the replay cache of a process never holds more than cache_max_size
\* content-hashes.
C9_CacheBounded ==
    \A w \in Workers : Cardinality(verified_cache[w]) <= cache_max_size

\* a process has inserted more content-hashes than its cache holds
C9_Witness ==
    \E w \in Workers :
        /\ Cardinality(seen[w]) > cache_max_size
        /\ Cardinality(verified_cache[w]) = cache_max_size

\* C10: an insertion into a full cache evicts the content-hash inserted
\* longest ago: afterwards the cache holds the cache_max_size most recently
\* inserted ones.
C10_EvictsOldest ==
    [][ \A w \in Workers :
          ( /\ DidDownload /\ last'.w = w /\ last'.result # None
            /\ Cardinality(verified_cache[w]) = cache_max_size )
          => verified_cache'[w] =
                 Range(LastN(Append(order[w], token_hash(last'.token)),
                             cache_max_size)) ]_vars

\* this step is a call of get_token_info or of decode_token
DidDescribe == last'.seq # last.seq /\ last'.op \in {"info", "decode"}

\* C11: get_token_info and decode_token leave the replay cache of every
\* process as it was, and answer without regard to it: a well-formed token
\* with a known expiry is reported valid exactly when that expiry is not
\* past, verified before or not, and its claims are returned as they are.
C11_DescribeLeavesCache ==
    [][ DidDescribe
        => /\ verified_cache' = verified_cache
           /\ (last'.op = "info" /\ last'.token.wf /\ last'.token.exp # Absent)
              => (last'.kind = "valid") = ~Expired(last'.token, now)
           /\ (last'.token.wf /\ last'.token.url # NoUrl)
              => last'.result = last'.token.url ]_vars

\* a token that a process has in its replay cache was described as valid
C11_Witness ==
    /\ last.op = "info" /\ last.kind = "valid"
    /\ \E w \in Workers : token_hash(last.token) \in verified_cache[w]

\* resolve has returned a descriptor
Resolved == call.pc = "done" /\ call.outcome = "ok"

\* the fallback extractor has been called, or is being called
FallbackInvoked ==
    call.generic_calls > 0 \/ call.pc \in {"generic_in_try", "generic_in_except"}

\* C12: the fallback extractor is invoked only after the backend was called,
\* and only if the backend raised or returned no data, never when it
\* returned data; when the backend raises and the fallback succeeds, resolve
\* returns the fallback's result.
C12_FallbackOnlyWithoutData ==
    /\ FallbackInvoked => call.backend \in {"raised", "no_data"}
    /\ (call.pc = "done" /\ call.backend = "raised" /\ call.generic_ok)
       => (call.outcome = "ok" /\ call.via = "generic")

\* the asset URLs of a list of formats, in order
Urls(formats) == [i \in 1..Len(formats) |-> formats[i].url]

\* C13: every format of a descriptor resolve returns has a non-empty asset
\* URL, on the backend path, for the format made of the result's own url,
\* and on the fallback path; the backend's records with a missing or empty
\* url are left out of the normalized list and every other record is in it,
\* in order, with its url.
C13_FormatsHaveUrl ==
    Resolved =>
        /\ \A i \in 1..Len(call.formats) : Truthy(call.formats[i].url)
        /\ \A i \in 1..Len(call.unfiltered) : Truthy(call.unfiltered[i].url)
        /\ (call.via = "backend" /\ call.info.formats_key = "list")
           => LET kept == SelectSeq(call.info.formats, LAMBDA fmt : Truthy(fmt.url))
              IN  kept # <<>> => Urls(call.unfiltered) = Urls(kept)

\* a descriptor came of a backend list that holds a record without a url
\* and a record with one
C13_Witness ==
    /\ Resolved /\ call.via = "backend" /\ call.info.formats_key = "list"
    /\ \E i \in 1..Len(call.info.formats) : ~Truthy(call.info.formats[i].url)
    /\ call.formats # <<>>

\* the preferences that name a height
NumericQualities == { <<"7", "2", "0">>, <<"7", "2", "0", "P">>, <<"5", "4", "0", "p">> }
TargetHeight(quality) == IF quality = <<"5", "4", "0", "p">> THEN 540 ELSE 720

\* s is the beginning of t
IsPrefix(s, t) == Len(s) <= Len(t) /\ SubSeq(t, 1, Len(s)) = s

\* C14: for a preference that names a height, the formats resolve returns
\* from the normalized backend list are at most TopMatches, in ascending
\* distance of their height from the one asked for, those of equal distance
\* in the order they had.
C14_NumericTopFive ==
    (Resolved /\ call.via = "backend" /\ call.quality \in NumericQualities)
    => LET t == TargetHeight(call.quality)
       IN  /\ Len(call.formats) <= TopMatches
           /\ \A i, j \in 1..Len(call.formats) :
                 i < j => distance(call.formats[i], t) <= distance(call.formats[j], t)
           /\ \A k \in 1..Len(call.formats) :
                 LET same(f) == distance(f, t) = distance(call.formats[k], t)
                 IN  IsPrefix(SelectSeq(call.formats, same),
                              SelectSeq(call.unfiltered, same))

\* the number of places of s that hold x
Count(s, x) == Cardinality({i \in 1..Len(s) : s[i] = x})

\* the preferences that are absent or name nothing the selector knows
UnrecognizedQualities == { NoQuality, <<"4", "k">>, <<"p">> }

\* C15: whatever the list and the preference, the selector returns only
\* formats of its input, each no more often than the input holds it, so no
\* more than the input holds; for a preference that is absent or not
\* recognized it returns the input.
C15_SelectsFromInput ==
    sel.pc = "returned" =>
        /\ \A i \in 1..Len(sel.out) :
              Count(sel.out, sel.out[i]) <= Count(sel.formats, sel.out[i])
        /\ Len(sel.out) <= Len(sel.formats)
        /\ sel.quality \in UnrecognizedQualities => sel.out = sel.formats

\* a numeric preference cut a list of more than TopMatches formats
C15_Witness ==
    /\ sel.pc = "returned" /\ sel.quality \in NumericQualities
    /\ Len(sel.formats) > TopMatches /\ Len(sel.out) = TopMatches

\* C16: whenever verify_token returns a URL, the token's content-hash is in
\* the replay cache of that process right after the call, whatever the cache
\* held before.
C16_AcceptedIsCached ==
    [][ \A w \in Workers :
          (DidDownload /\ last'.w = w /\ last'.result # None)
          => token_hash(last'.token) \in verified_cache'[w] ]_vars

\* C17: within one resolve call the fallback extractor is invoked at most
\* once, whatever the backend and the fallback do.
C17_FallbackAtMostOnce == call.generic_calls <= 1

\* C18: the formats of a descriptor resolve returns for a request with a
\* quality preference are what the selector makes of the formats found,
\* on the backend path and on the fallback path.
C18_ReturnsSelection ==
    (Resolved /\ call.quality # NoQuality)
    => call.formats = filter_by_quality(call.unfiltered, call.quality)

\* C19: when the backend raises and the fallback fails, resolve raises an
\* error that carries the backend's exception; resolve raises only if
\* neither the backend returned data nor the fallback succeeded, and then
\* returns no formats.
C19_FailsOnlyIfBothFail ==
    (call.pc = "done" /\ call.outcome = "error")
    => /\ call.backend = "raised"
          => call.error = "Failed to resolve URL: " \o ExtractorError
       /\ call.backend # "data" /\ ~call.generic_ok
       /\ call.formats = <<>>

\* C20: a backend result that is present is turned into a descriptor, with
\* no exception and no use of the fallback extractor, also when its formats
\* list, its first playlist entry or its description is null.
C20_NormalizeNeverRaises ==
    [][ (call.pc = "backend" /\ call'.backend = "data")
        => (call'.pc = "done" /\ call'.outcome = "ok" /\ call'.via = "backend") ]_vars

\* this step is the client's first request for the download of format i of
\* the response it holds
FirstFetch(i) ==
    /\ DidDownload
    /\ i \in 1..Len(signed_links)
    /\ signed_links[i].fetched = 0
    /\ signed_links' = [signed_links EXCEPT ![i].fetched = 1]

\* C21: every format of a /resolve response carries a download token of
\* its own asset URL, and the first download request for each format,
\* made inside the token's validity window, is answered with that format's
\* asset URL, whichever other formats of the response were downloaded
\* before, also when two formats have the same asset URL and were signed at
\* the same instant.
C21_FormatTokensIndependent ==
    [][ \A i \in 1..Len(signed_links) :
          /\ payload_url(signed_links[i].download_token) = signed_links[i].url
          /\ (FirstFetch(i) /\ InWindow(signed_links[i].download_token, now))
             => last'.result = signed_links[i].url ]_vars

\* this step is a request to an endpoint that rate_limit_check guards
DidLimit == last'.seq # last.seq /\ last'.op \in {"resolve", "get_info"}

\* the number of requests of an address admitted in the window before t
Recent(ip, t) ==
    Cardinality({i \in 1..Len(admitted[ip]) : t - admitted[ip][i] < WindowMs})

\* C22: a request of a client address is admitted only if fewer requests of
\* that address than the endpoint's limit were admitted in the window
\* before it, and is refused with 429 only otherwise; a refused request is
\* not recorded; the record of every other address stays as it was, so that
\* the admission of an address depends on its own requests alone.
C22_RateLimit ==
    [][ DidLimit =>
        LET ip == last'.result
            limit == IF last'.op = "resolve" THEN resolve_limit ELSE info_limit
        IN  /\ (last'.status # 429) = (Recent(ip, now) < limit)
            /\ last'.status = 429
               => /\ admitted' = admitted
                  /\ Len(request_timestamps'[ip]) <= Len(request_timestamps[ip])
                  /\ \A i \in 1..Len(request_timestamps'[ip]) :
                        request_timestamps'[ip][i] # now
                        \/ \E k \in 1..Len(request_timestamps[ip]) :
                              request_timestamps[ip][k] = now
            /\ \A other \in IPs \ {ip} :
                  /\ request_timestamps'[other] = request_timestamps[other]
                  /\ admitted'[other] = admitted[other] ]_vars

\* a request of an address was admitted after more admitted requests of it
\* than the limit, the older ones out of the window, while another address
\* was at its limit
C22_Witness ==
    /\ last.op \in {"resolve", "get_info"} /\ last.status # 429
    /\ Len(admitted[last.result]) > resolve_limit
    /\ \E other \in IPs \ {last.result} :
          Len(request_timestamps[other]) >= resolve_limit

====
